---- MODULE Spec2Model ----
(***************************************************************************)
(* Model of the gpio-buttons-go ButtonManager.  The repository carries     *)
(* three implementations of the manager; one behaviour of the model runs   *)
(* one of them, selected by the variable impl:                             *)
(*   "block"   src/button.go:1-224      periph.io, WaitForEdge(-1)          *)
(*   "timeout" src/unnamed/part_004     periph.io, WaitForEdge(100ms)       *)
(*   "push"    src/button.go:226-474    go-gpiocdev event handler           *)
(* Time is counted in ticks of 10 ms.                                      *)
(***************************************************************************)
EXTENDS Integers, Sequences, FiniteSets, TLC

\* ---------------------------------------------------------------- bounds
\* the lifecycle runs (Spec): buttons, monitors and concurrent Stop calls
MaxTime == 3
MaxEdges == 1
MaxButtons == 1
MaxMonitors == 1
MaxStops == 2
\* the debounce runs (GateSpec): one button observed over a longer time
GateMaxTime == 8
GateMaxEdges == 3
\* the termination runs (FairSpec): the lifecycle with fewer Stop calls
FairMaxStops == 1
\* the registration runs (CallSpec): two buttons, repeated calls, one edge
\* and one Stop
CallMaxButtons == 2
CallMaxMonitors == 2
\* the race runs (RaceSpec): one button watched by two monitors
RaceMaxEdges == 2
\* the most Stop calls and monitor goroutines any run has
StopCalls == 3
MonitorSlots == 2

\* ------------------------------------------------------ program constants
defaultDebounceTime == 5
ZeroTime == -1000
MaxDuration == 1000000

Impls == {"block", "timeout", "push"}
Lines == {7, 8}
Low == "Low"
High == "High"
Levels == {Low, High}

\* the PinName strings the callers use, and their characters
GpioChip0 == <<"g", "p", "i", "o", "c", "h", "i", "p", "0">>
PinNames == {"7", "8", "9", "gpiochip0:7", "x"}
Chars(name) ==
    CASE name = "7" -> <<"7">>
      [] name = "8" -> <<"8">>
      [] name = "9" -> <<"9">>
      [] name = "gpiochip0:7" -> GpioChip0 \o <<":", "7">>
      [] name = "x" -> <<"x">>
Callbacks == {TRUE}

\* the DebounceTime values the callers pass, for Spec and for GateSpec
Windows == {0, 5}
GateWindows == {-1, 0, 2, 5}
\* the Pull a caller asks for and what the line's driver accepts ("full":
\* every request, "nobias": none with a bias, "nodebounce": none with a
\* debounce, "bare": neither, "none": nothing): gpio.Pull of periph.io
\* (zero value Float), Pull and ActiveLow of the push model
PeriphRequests ==
    {[pull |-> "Float", cap |-> "full"], [pull |-> "PullNoChange", cap |-> "full"],
     [pull |-> "PullUp", cap |-> "full"], [pull |-> "PullUp", cap |-> "nobias"]}
PushRequests ==
    {[pull |-> "PullNoChange", cap |-> "full", activeLow |-> TRUE],
     [pull |-> "PullUp", cap |-> "full", activeLow |-> TRUE],
     [pull |-> "PullUp", cap |-> "nobias", activeLow |-> FALSE],
     [pull |-> "PullUp", cap |-> "nodebounce", activeLow |-> TRUE],
     [pull |-> "PullUp", cap |-> "bare", activeLow |-> TRUE],
     [pull |-> "PullUp", cap |-> "none", activeLow |-> TRUE]}
\* the time steps the environment takes, in ticks
TickSteps == {3, 5}

Ok == "ok"
ErrNoButtons == "no buttons configured"
ErrFindPin == "failed to find pin"
ErrConfigurePin == "failed to configure pin"
ErrPinNameRequired == "PinName is required"
ErrInvalidOffset == "invalid line offset"
ErrInvalidPinName == "invalid PinName"
ErrRequestLine == "failed to request line"

VARIABLES
    impl,       \* which implementation this behaviour runs
    clock,      \* time.Now(), in ticks
    mu,         \* ButtonManager.mu: 0 when free, else the Stop call holding it
    cancelled,  \* bm.ctx is done
    wg,         \* bm.wg counter
    btns,       \* the button objects ever created (heap), a sequence
    registry,   \* bm.buttons: PinName -> index into btns, 0 when absent
    monitors,   \* the monitorButton goroutines ever spawned, a sequence
    pending,    \* callback goroutines spawned by `go` and not yet begun
    cbLog,      \* callbacks that began executing, in order
    level,      \* hardware: logical level of each line
    edge,       \* hardware: an edge is waiting to be reported by WaitForEdge
    lineOpen,   \* hardware: the line is configured/requested
    stopPc,     \* position of each Stop call
    stopTodo,   \* push model: buttons a Stop call still has to Close
    ret,        \* result of the last AddButton/Start call that returned
    started,    \* a Start call has returned nil
    nedges,     \* number of hardware edges so far, for each line
    crashed,    \* the Go runtime ended the process on an unrecovered panic
    stopBy,     \* who made each Stop call: 0 a caller's goroutine, i callback cbLog[i]
    lim         \* the limits of this run: time, edges, buttons, monitors, stops, inputs

vars == <<impl, clock, mu, cancelled, wg, btns, registry, monitors, pending,
          cbLog, level, edge, lineOpen, stopPc, stopTodo, ret, started, nedges,
          crashed, stopBy, lim>>

\* ----------------------------------------------------------------- helpers
\* time.Time.Sub / time.Since: the difference, saturated for the zero Time
Sub(now, last) == IF last = ZeroTime THEN MaxDuration ELSE now - last

RECURSIVE TrimLeft(_)
TrimLeft(s) == IF s # <<>> /\ Head(s) = " " THEN TrimLeft(Tail(s)) ELSE s

RECURSIVE TrimRight(_)
TrimRight(s) ==
    IF s # <<>> /\ s[Len(s)] = " " THEN TrimRight(SubSeq(s, 1, Len(s) - 1)) ELSE s

TrimSpace(s) == TrimRight(TrimLeft(s))

Contains(s, c) == \E i \in 1..Len(s) : s[i] = c

IndexOf(s, c) == CHOOSE i \in 1..Len(s) : s[i] = c /\ \A j \in 1..(i - 1) : s[j] # c

DigitVal(c) ==
    CASE c = "0" -> 0 [] c = "1" -> 1 [] c = "2" -> 2 [] c = "3" -> 3
      [] c = "4" -> 4 [] c = "5" -> 5 [] c = "6" -> 6 [] c = "7" -> 7
      [] c = "8" -> 8 [] c = "9" -> 9 [] OTHER -> -1

RECURSIVE DigitsVal(_)
DigitsVal(s) == IF s = <<>> THEN 0 ELSE DigitsVal(SubSeq(s, 1, Len(s) - 1)) * 10 + DigitVal(s[Len(s)])

\* strconv.Atoi: [ok, val]; an optional sign followed by one or more digits
Atoi(s) ==
    LET signed == s # <<>> /\ Head(s) \in {"+", "-"}
        body == IF signed THEN Tail(s) ELSE s
        good == body # <<>> /\ \A i \in 1..Len(body) : DigitVal(body[i]) >= 0
    IN  IF ~good THEN [ok |-> FALSE, val |-> 0]
        ELSE [ok |-> TRUE,
              val |-> IF signed /\ Head(s) = "-" THEN 0 - DigitsVal(body) ELSE DigitsVal(body)]

\* resolveChipLine: [err, chip, offset]
resolveChipLine(pinName) ==
    LET p == TrimSpace(Chars(pinName)) IN
    IF p = <<>> THEN [err |-> ErrPinNameRequired, chip |-> <<>>, offset |-> 0]
    ELSE IF Contains(p, ":")
    THEN LET i == IndexOf(p, ":")
             off == Atoi(SubSeq(p, i + 1, Len(p)))
         IN  IF ~off.ok THEN [err |-> ErrInvalidOffset, chip |-> <<>>, offset |-> 0]
             ELSE [err |-> Ok, chip |-> SubSeq(p, 1, i - 1), offset |-> off.val]
    ELSE LET off == Atoi(p)
         IN  IF ~off.ok THEN [err |-> ErrInvalidPinName, chip |-> <<>>, offset |-> 0]
             ELSE [err |-> Ok, chip |-> GpioChip0, offset |-> off.val]

\* a lookup that falls back to a default pin for an unknown name
ByNameDefault(pinName) ==
    LET n == Atoi(Chars(pinName)) IN
    IF n.ok /\ n.val \in Lines /\ Len(Chars(pinName)) = 1 THEN n.val ELSE 7

\* gpioreg.ByName: the line registered under that name, 0 for nil
ByName(pinName) ==
    LET n == Atoi(Chars(pinName)) IN
    IF n.ok /\ n.val \in Lines /\ Len(Chars(pinName)) = 1 THEN n.val ELSE 0

\* pullOption: the bias request option of a Pull, none for PullNoChange
pullOption(p) == IF p = "PullNoChange" THEN {} ELSE {"bias"}

\* pin.In: the bias a periph.io Pull asks the driver for
PeriphBias(p) == IF p = "PullUp" THEN {"bias"} ELSE {}

\* does a driver of capability cap accept a request carrying these options
Accepts(cap, opts) ==
    CASE cap = "full" -> TRUE
      [] cap = "nobias" -> "bias" \notin opts
      [] cap = "nodebounce" -> "debounce" \notin opts
      [] cap = "bare" -> opts \cap {"bias", "debounce"} = {}
      [] OTHER -> FALSE

\* the full request alone, with no weaker request after it
combosFullOnly(window, pull, activeLow) ==
    LET base == IF activeLow THEN {"activeLow"} ELSE {}
        deb == IF window > 0 THEN {"debounce"} ELSE {}
    IN  <<base \cup deb \cup pullOption(pull)>>

\* the option sets without the last, bare request
combosNoBaseOnly(window, pull, activeLow) ==
    LET base == IF activeLow THEN {"activeLow"} ELSE {}
        deb == IF window > 0 THEN {"debounce"} ELSE {}
        full == <<base \cup deb \cup pullOption(pull)>>
        noBias == IF pullOption(pull) # {} THEN <<base \cup deb>> ELSE <<>>
        noDeb == IF window > 0 THEN <<base \cup pullOption(pull)>> ELSE <<>>
    IN  full \o noBias \o noDeb

\* the option sets AddButton (push model) tries, in order
combos(window, pull, activeLow) ==
    LET base == IF activeLow THEN {"activeLow"} ELSE {}
        deb == IF window > 0 THEN {"debounce"} ELSE {}
        full == <<base \cup deb \cup pullOption(pull)>>
        noBias == IF pullOption(pull) # {} THEN <<base \cup deb>> ELSE <<>>
        noDeb == IF window > 0 THEN <<base \cup pullOption(pull)>> ELSE <<>>
        baseOnly == <<base>>
    IN  full \o noBias \o noDeb \o baseOnly

\* gpiocdev.RequestLine for each option set in turn: index of the first
\* accepted one, 0 when every request fails
FirstAccepted(cs, cap, free) ==
    IF free /\ \E i \in 1..Len(cs) : Accepts(cap, cs[i])
    THEN CHOOSE i \in 1..Len(cs) : Accepts(cap, cs[i]) /\ \A j \in 1..(i - 1) : ~Accepts(cap, cs[j])
    ELSE 0

\* a new button object
NewButton(name, line, window, cb, hwDebounce) ==
    [name |-> name, line |-> line, window |-> window, cb |-> cb,
     hwDebounce |-> hwDebounce, lastPress |-> ZeroTime, closes |-> 0,
     inflight |-> ZeroTime, hist |-> <<>>]

ButtonCount == Cardinality({n \in PinNames : registry[n] # 0})

Registered == {registry[n] : n \in {x \in PinNames : registry[x] # 0}}

\* the hardware edges so far, over all lines
RECURSIVE SumOver(_, _)
SumOver(f, S) == IF S = {} THEN 0 ELSE LET x == CHOOSE x \in S : TRUE IN f[x] + SumOver(f, S \ {x})

EdgeCount == SumOver(nedges, Lines)

\* -------------------------------------------------------------------- Init
Start0 ==
    /\ impl \in Impls
    /\ clock = 0
    /\ mu = 0
    /\ cancelled = FALSE
    /\ wg = 0
    /\ btns = <<>>
    /\ registry = [n \in PinNames |-> 0]
    /\ monitors = <<>>
    /\ pending = {}
    /\ cbLog = <<>>
    /\ level = [l \in Lines |-> High]
    /\ edge = [l \in Lines |-> FALSE]
    /\ lineOpen = [l \in Lines |-> FALSE]
    /\ stopPc = [t \in 1..StopCalls |-> "idle"]
    /\ stopTodo = [t \in 1..StopCalls |-> {}]
    /\ ret = "none"
    /\ started = FALSE
    /\ nedges = [l \in Lines |-> 0]
    /\ crashed = FALSE
    /\ stopBy = [t \in 1..StopCalls |-> 0]

Init ==
    /\ Start0
    /\ lim = [time |-> MaxTime, edges |-> MaxEdges, buttons |-> MaxButtons,
              monitors |-> MaxMonitors, stops |-> MaxStops, windows |-> Windows, panics |-> FALSE,
              cbstops |-> FALSE]

FairInit ==
    /\ Start0
    /\ lim = [time |-> MaxTime, edges |-> MaxEdges, buttons |-> MaxButtons,
              monitors |-> MaxMonitors, stops |-> FairMaxStops, windows |-> Windows, panics |-> FALSE,
              cbstops |-> FALSE]

\* callers that register several buttons and repeat their calls
CallInit ==
    /\ Start0
    /\ lim = [time |-> MaxTime, edges |-> 1, buttons |-> CallMaxButtons,
              monitors |-> CallMaxMonitors, stops |-> 1,
              windows |-> {defaultDebounceTime}, panics |-> FALSE,
              cbstops |-> FALSE]

\* callers whose callbacks may panic
PanicInit ==
    /\ Start0
    /\ lim = [time |-> MaxTime, edges |-> MaxEdges, buttons |-> MaxButtons,
              monitors |-> MaxMonitors, stops |-> FairMaxStops, windows |-> Windows,
              panics |-> TRUE, cbstops |-> FALSE]

\* callers that leave DebounceTime at its zero value
ZeroInit ==
    /\ Start0
    /\ lim = [time |-> GateMaxTime, edges |-> GateMaxEdges, buttons |-> 1,
              monitors |-> 1, stops |-> 1, windows |-> {0}, panics |-> FALSE,
              cbstops |-> FALSE]

\* callers whose callbacks call manager.Stop() (README, emergency stop)
EmergencyInit ==
    /\ Start0
    /\ lim = [time |-> MaxTime, edges |-> MaxEdges, buttons |-> MaxButtons,
              monitors |-> MaxMonitors, stops |-> FairMaxStops, windows |-> Windows,
              panics |-> FALSE, cbstops |-> TRUE]

\* callers that call Start twice, so that two monitors watch one button
RaceInit ==
    /\ Start0
    /\ lim = [time |-> MaxTime, edges |-> RaceMaxEdges, buttons |-> 1,
              monitors |-> CallMaxMonitors, stops |-> 1,
              windows |-> {defaultDebounceTime}, panics |-> FALSE, cbstops |-> FALSE]

GateInit ==
    /\ Start0
    /\ lim = [time |-> GateMaxTime, edges |-> GateMaxEdges, buttons |-> 1,
              monitors |-> 1, stops |-> 1, windows |-> GateWindows, panics |-> FALSE,
              cbstops |-> FALSE]

\* --------------------------------------------------------------- AddButton
\* a zero DebounceTime kept as it is
keepDebounceTime(window0) == window0

\* "Apply defaults": button.go:72-74, 303-305 and part_004:186-188
applyDefaults(window0) == IF window0 = 0 THEN defaultDebounceTime ELSE window0

\* an AddButton that leaves the pin configured when pin.In reports an error
AddButtonPeriphLeaky(name, window0, cb, pull0, cap) ==
    LET window == applyDefaults(window0)
        pull == CASE impl = "block" /\ pull0 = "Float" -> "PullNoChange"
                  [] impl = "timeout" /\ pull0 = "PullNoChange" -> "PullUp"
                  [] OTHER -> pull0
        line == ByName(name)
    IN  /\ ~crashed
        /\ impl \in {"block", "timeout"}
        /\ mu = 0
        /\ Len(btns) < lim.buttons
        /\ IF line = 0
           THEN /\ ret' = ErrFindPin
                /\ UNCHANGED <<btns, registry, lineOpen>>
           ELSE IF ~Accepts(cap, PeriphBias(pull))
           THEN /\ ret' = ErrConfigurePin
                /\ lineOpen' = [lineOpen EXCEPT ![line] = TRUE]
                /\ UNCHANGED <<btns, registry>>
           ELSE /\ btns' = Append(btns, NewButton(name, line, window, cb, FALSE))
                /\ registry' = [registry EXCEPT ![name] = Len(btns) + 1]
                /\ lineOpen' = [lineOpen EXCEPT ![line] = TRUE]
                /\ ret' = Ok
        /\ UNCHANGED <<stopBy, crashed, impl, clock, mu, cancelled, wg, monitors, pending, cbLog,
                       level, edge, stopPc, stopTodo, started, nedges, lim>>

\* periph.io implementations: button.go:67-98 and part_004:177-211
AddButtonPeriph(name, window0, cb, pull0, cap) ==
    LET window == applyDefaults(window0)
        pull == CASE impl = "block" /\ pull0 = "Float" -> "PullNoChange"
                  [] impl = "timeout" /\ pull0 = "PullNoChange" -> "PullUp"
                  [] OTHER -> pull0
        line == ByName(name)
    IN  /\ ~crashed
        /\ impl \in {"block", "timeout"}
        /\ mu = 0
        /\ Len(btns) < lim.buttons
        /\ IF line = 0
           THEN /\ ret' = ErrFindPin
                /\ UNCHANGED <<btns, registry, lineOpen>>
           ELSE IF ~Accepts(cap, PeriphBias(pull))
           THEN /\ ret' = ErrConfigurePin
                /\ UNCHANGED <<btns, registry, lineOpen>>
           ELSE /\ btns' = Append(btns, NewButton(name, line, window, cb, FALSE))
                /\ registry' = [registry EXCEPT ![name] = Len(btns) + 1]
                /\ lineOpen' = [lineOpen EXCEPT ![line] = TRUE]
                /\ ret' = Ok
        /\ UNCHANGED <<stopBy, crashed, impl, clock, mu, cancelled, wg, monitors, pending, cbLog,
                       level, edge, stopPc, stopTodo, started, nedges, lim>>

\* an AddButton that does not take bm.mu
AddButtonPushUnlocked(name, window0, cb, pull, activeLow, cap) ==
    LET window == applyDefaults(window0)
        r == resolveChipLine(name)
        cs == combos(window, pull, activeLow)
        exists == r.chip = GpioChip0 /\ r.offset \in Lines
        got == IF exists THEN FirstAccepted(cs, cap, ~lineOpen[r.offset]) ELSE 0
    IN  /\ ~crashed
        /\ impl = "push"
        /\ Len(btns) < lim.buttons
        /\ IF r.err # Ok
           THEN /\ ret' = r.err
                /\ UNCHANGED <<btns, registry, lineOpen>>
           ELSE IF got = 0
           THEN /\ ret' = ErrRequestLine
                /\ UNCHANGED <<btns, registry, lineOpen>>
           ELSE /\ btns' = Append(btns, NewButton(name, r.offset, window, cb,
                                                  "debounce" \in cs[got]))
                /\ registry' = [registry EXCEPT ![name] = Len(btns) + 1]
                /\ lineOpen' = [lineOpen EXCEPT ![r.offset] = TRUE]
                /\ ret' = Ok
        /\ UNCHANGED <<stopBy, crashed, impl, clock, mu, cancelled, wg, monitors, pending, cbLog,
                       level, edge, stopPc, stopTodo, started, nedges, lim>>

\* go-gpiocdev implementation: button.go:298-401
AddButtonPush(name, window0, cb, pull, activeLow, cap) ==
    LET window == applyDefaults(window0)
        r == resolveChipLine(name)
        cs == combos(window, pull, activeLow)
        exists == r.chip = GpioChip0 /\ r.offset \in Lines
        got == IF exists THEN FirstAccepted(cs, cap, ~lineOpen[r.offset]) ELSE 0
    IN  /\ ~crashed
        /\ impl = "push"
        /\ mu = 0
        /\ Len(btns) < lim.buttons
        /\ IF r.err # Ok
           THEN /\ ret' = r.err
                /\ UNCHANGED <<btns, registry, lineOpen>>
           ELSE IF got = 0
           THEN /\ ret' = ErrRequestLine
                /\ UNCHANGED <<btns, registry, lineOpen>>
           ELSE /\ btns' = Append(btns, NewButton(name, r.offset, window, cb,
                                                  "debounce" \in cs[got]))
                /\ registry' = [registry EXCEPT ![name] = Len(btns) + 1]
                /\ lineOpen' = [lineOpen EXCEPT ![r.offset] = TRUE]
                /\ ret' = Ok
        /\ UNCHANGED <<stopBy, crashed, impl, clock, mu, cancelled, wg, monitors, pending, cbLog,
                       level, edge, stopPc, stopTodo, started, nedges, lim>>

AddButton ==
    \E name \in PinNames, window0 \in lim.windows, cb \in Callbacks :
        \/ \E r \in PeriphRequests : AddButtonPeriph(name, window0, cb, r.pull, r.cap)
        \/ \E r \in PushRequests :
              AddButtonPush(name, window0, cb, r.pull, r.activeLow, r.cap)

\* ------------------------------------------------------------------- Start
RECURSIVE SetToSeq(_)
SetToSeq(S) ==
    IF S = {} THEN <<>>
    ELSE LET x == CHOOSE x \in S : \A y \in S : x <= y
         IN  <<x>> \o SetToSeq(S \ {x})

\* every goroutine of the range loop watching the same button
NewMonitorSameButton(b) == [btn |-> 1, pc |-> IF impl = "block" THEN "wait" ELSE "select", h |-> 0]

\* the goroutine `go bm.monitorButton(btn)` creates
NewMonitor(b) == [btn |-> b, pc |-> IF impl = "block" THEN "wait" ELSE "select", h |-> 0]

RECURSIVE SpawnAll(_)
SpawnAll(bs) == IF bs = <<>> THEN <<>> ELSE <<NewMonitor(Head(bs))>> \o SpawnAll(Tail(bs))

\* Start without the check for an empty registry
StartUnchecked ==
    /\ ~crashed
    /\ mu = 0
    /\ IF impl = "push"
       THEN UNCHANGED <<wg, monitors>>
       ELSE /\ Len(monitors) + ButtonCount <= lim.monitors
            /\ monitors' = monitors \o SpawnAll(SetToSeq(Registered))
            /\ wg' = wg + ButtonCount
    /\ ret' = Ok
    /\ started' = TRUE
    /\ UNCHANGED <<stopBy, crashed, impl, clock, mu, cancelled, btns, registry, pending, cbLog,
                   level, edge, lineOpen, stopPc, stopTodo, nedges, lim>>

\* button.go:102-117, part_004:214-229 and (push model) button.go:404-412
Start ==
    /\ ~crashed
    /\ mu = 0
    /\ IF ButtonCount = 0
       THEN /\ ret' = ErrNoButtons
            /\ UNCHANGED <<wg, monitors, started>>
       ELSE IF impl = "push"
       THEN /\ ret' = Ok
            /\ started' = TRUE
            /\ UNCHANGED <<wg, monitors>>
       ELSE /\ Len(monitors) + ButtonCount <= lim.monitors
            /\ monitors' = monitors \o SpawnAll(SetToSeq(Registered))
            /\ wg' = wg + ButtonCount
            /\ ret' = Ok
            /\ started' = TRUE
    /\ UNCHANGED <<stopBy, crashed, impl, clock, mu, cancelled, btns, registry, pending, cbLog,
                   level, edge, lineOpen, stopPc, stopTodo, nedges, lim>>

\* ------------------------------------------------------------ debounce gate
\* a reading that counts every level as pressed
isPressedAnyLevel(lvl) == TRUE

\* button.isPressed (button.go:161-163) and part_004:248: LOW means pressed
isPressed(lvl) == lvl = Low

\* the gate with the window forgotten
isDebouncePassedNoWindow(now, last, window) == Sub(now, last) > 0

\* the gate with a non-strict comparison
isDebouncePassedInclusive(now, last, window) == Sub(now, last) >= window

\* button.isDebouncePassed (button.go:166-170) and part_004:253
isDebouncePassed(now, last, window) == Sub(now, last) > window

\* the guard of the push-model handler closure (button.go:327)
handlerRejects(now, last, window) ==
    window > 0 /\ last # ZeroTime /\ Sub(now, last) <= window \div 2

HistEntry(kind, now, last) == [kind |-> kind, now |-> now, last |-> last, upd |-> ZeroTime]

\* `go callback(pinName)`: the goroutine handed to the scheduler
Dispatch(b, k) == IF btns[b].cb THEN {[btn |-> b, k |-> k]} ELSE {}

\* ---------------------------------------------------- monitorButton, "block"
\* button.go:128-139: WaitForEdge(-1) reports an edge, then isShuttingDown
MonitorWaitEdge(m) ==
    LET l == btns[monitors[m].btn].line IN
    /\ impl = "block"
    /\ monitors[m].pc = "wait"
    /\ lineOpen[l] /\ edge[l]
    /\ edge' = [edge EXCEPT ![l] = FALSE]
    /\ IF cancelled
       THEN /\ monitors' = [monitors EXCEPT ![m].pc = "done"]
            /\ wg' = wg - 1
       ELSE /\ monitors' = [monitors EXCEPT ![m].pc = "gate"]
            /\ wg' = wg
    /\ UNCHANGED <<stopBy, crashed, impl, clock, mu, cancelled, btns, registry, pending, cbLog,
                   level, lineOpen, stopPc, stopTodo, ret, started, nedges, lim>>

\* button.go:128-134: WaitForEdge(-1) fails (the pin was halted), then
\* isShuttingDown
MonitorWaitFail(m) ==
    LET l == btns[monitors[m].btn].line IN
    /\ impl = "block"
    /\ monitors[m].pc = "wait"
    /\ ~lineOpen[l]
    /\ IF cancelled
       THEN /\ monitors' = [monitors EXCEPT ![m].pc = "done"]
            /\ wg' = wg - 1
       ELSE UNCHANGED <<monitors, wg>>
    /\ UNCHANGED <<stopBy, crashed, impl, clock, mu, cancelled, btns, registry, pending, cbLog,
                   level, edge, lineOpen, stopPc, stopTodo, ret, started, nedges, lim>>

\* button.go:142: btn.isPressed() && btn.isDebouncePassed()
MonitorGate(m) ==
    LET b == monitors[m].btn
        pressed == isPressed(level[btns[b].line])
        pass == pressed /\ isDebouncePassed(clock, btns[b].lastPress, btns[b].window)
        kind == IF ~pressed THEN "notPressed" ELSE IF pass THEN "accepted" ELSE "rejected"
    IN  /\ impl = "block"
        /\ monitors[m].pc = "gate"
        /\ btns' = [btns EXCEPT ![b].hist = Append(@, HistEntry(kind, clock, btns[b].lastPress))]
        /\ monitors' = [monitors EXCEPT ![m].pc = IF pass THEN "update" ELSE "wait",
                                        ![m].h = IF pass THEN Len(btns[b].hist) + 1 ELSE 0]
        /\ UNCHANGED <<stopBy, crashed, impl, clock, mu, cancelled, wg, registry, pending, cbLog,
                       level, edge, lineOpen, stopPc, stopTodo, ret, started, nedges, lim>>

\* an update that stores the time of the debounce decision, not time.Now()
MonitorUpdateStale(m) ==
    LET b == monitors[m].btn
        k == monitors[m].h
    IN  /\ impl = "block"
        /\ monitors[m].pc = "update"
        /\ btns' = [btns EXCEPT ![b].lastPress = btns[b].hist[k].now,
                                ![b].hist[k].upd = btns[b].hist[k].now]
        /\ pending' = pending \cup Dispatch(b, k)
        /\ monitors' = [monitors EXCEPT ![m].pc = "wait", ![m].h = 0]
        /\ UNCHANGED <<stopBy, crashed, impl, clock, mu, cancelled, wg, registry, cbLog,
                       level, edge, lineOpen, stopPc, stopTodo, ret, started, nedges, lim>>

\* button.go:143-144: btn.updateLastPress(); bm.invokeCallback(btn)
MonitorUpdate(m) ==
    LET b == monitors[m].btn
        k == monitors[m].h
    IN  /\ impl = "block"
        /\ monitors[m].pc = "update"
        /\ btns' = [btns EXCEPT ![b].lastPress = clock,
                                ![b].hist[k].upd = clock]
        /\ pending' = pending \cup Dispatch(b, k)
        /\ monitors' = [monitors EXCEPT ![m].pc = "wait", ![m].h = 0]
        /\ UNCHANGED <<stopBy, crashed, impl, clock, mu, cancelled, wg, registry, cbLog,
                       level, edge, lineOpen, stopPc, stopTodo, ret, started, nedges, lim>>

\* -------------------------------------------------- monitorButton, "timeout"
\* part_004:238-241: select on bm.ctx.Done()
MonitorSelect(m) ==
    /\ impl = "timeout"
    /\ monitors[m].pc = "select"
    /\ IF cancelled
       THEN /\ monitors' = [monitors EXCEPT ![m].pc = "done"]
            /\ wg' = wg - 1
       ELSE /\ monitors' = [monitors EXCEPT ![m].pc = "wait"]
            /\ wg' = wg
    /\ UNCHANGED <<stopBy, crashed, impl, clock, mu, cancelled, btns, registry, pending, cbLog,
                   level, edge, lineOpen, stopPc, stopTodo, ret, started, nedges, lim>>

\* part_004:243: WaitForEdge(100ms) returns false
MonitorTimeout(m) ==
    LET l == btns[monitors[m].btn].line IN
    /\ impl = "timeout"
    /\ monitors[m].pc = "wait"
    /\ ~(lineOpen[l] /\ edge[l])
    /\ monitors' = [monitors EXCEPT ![m].pc = "select"]
    /\ UNCHANGED <<stopBy, crashed, impl, clock, mu, cancelled, wg, btns, registry, pending, cbLog,
                   level, edge, lineOpen, stopPc, stopTodo, ret, started, nedges, lim>>

\* a loop that restarts the window at every pressed candidate, rejected or not
MonitorEdgeRestart(m) ==
    LET b == monitors[m].btn
        l == btns[b].line
        pressed == isPressed(level[l])
        pass == pressed /\ isDebouncePassed(clock, btns[b].lastPress, btns[b].window)
        kind == IF ~pressed THEN "notPressed" ELSE IF pass THEN "accepted" ELSE "rejected"
        k == Len(btns[b].hist) + 1
        e == [HistEntry(kind, clock, btns[b].lastPress) EXCEPT !.upd = IF pass THEN clock ELSE ZeroTime]
    IN  /\ impl = "timeout"
        /\ monitors[m].pc = "wait"
        /\ lineOpen[l] /\ edge[l]
        /\ edge' = [edge EXCEPT ![l] = FALSE]
        /\ btns' = [btns EXCEPT ![b].hist = Append(@, e),
                                ![b].lastPress = IF pressed THEN clock ELSE @]
        /\ pending' = IF pass THEN pending \cup Dispatch(b, k) ELSE pending
        /\ monitors' = [monitors EXCEPT ![m].pc = "select"]
        /\ UNCHANGED <<stopBy, crashed, impl, clock, mu, cancelled, wg, registry, cbLog,
                       level, lineOpen, stopPc, stopTodo, ret, started, nedges, lim>>

\* part_004:243-268: WaitForEdge(100ms) returns true; read, gate, dispatch
MonitorEdge(m) ==
    LET b == monitors[m].btn
        l == btns[b].line
        pressed == isPressed(level[l])
        pass == pressed /\ isDebouncePassed(clock, btns[b].lastPress, btns[b].window)
        kind == IF ~pressed THEN "notPressed" ELSE IF pass THEN "accepted" ELSE "rejected"
        k == Len(btns[b].hist) + 1
        e == [HistEntry(kind, clock, btns[b].lastPress) EXCEPT !.upd = IF pass THEN clock ELSE ZeroTime]
    IN  /\ impl = "timeout"
        /\ monitors[m].pc = "wait"
        /\ lineOpen[l] /\ edge[l]
        /\ edge' = [edge EXCEPT ![l] = FALSE]
        /\ btns' = [btns EXCEPT ![b].hist = Append(@, e),
                                ![b].lastPress = IF pass THEN clock ELSE @]
        /\ pending' = IF pass THEN pending \cup Dispatch(b, k) ELSE pending
        /\ monitors' = [monitors EXCEPT ![m].pc = "select"]
        /\ UNCHANGED <<stopBy, crashed, impl, clock, mu, cancelled, wg, registry, cbLog,
                       level, lineOpen, stopPc, stopTodo, ret, started, nedges, lim>>

\* a callback goroutine spawned by `go` begins executing
CallbackBegin(p) ==
    /\ ~crashed
    /\ p \in pending
    /\ pending' = pending \ {p}
    /\ cbLog' = Append(cbLog, [btn |-> p.btn, k |-> p.k])
    /\ UNCHANGED <<stopBy, crashed, impl, clock, mu, cancelled, wg, btns, registry, monitors,
                   level, edge, lineOpen, stopPc, stopTodo, ret, started, nedges, lim>>

\* a callback goroutine begins executing and its callback panics: nothing
\* recovers (button.go:183-185, part_004:258-262), the Go runtime ends the
\* process and with it every goroutine
CallbackPanic(p) ==
    /\ ~crashed
    /\ lim.panics
    /\ p \in pending
    /\ pending' = pending \ {p}
    /\ cbLog' = Append(cbLog, [btn |-> p.btn, k |-> p.k])
    /\ crashed' = TRUE
    /\ UNCHANGED <<stopBy, impl, clock, mu, cancelled, wg, btns, registry, monitors,
                   level, edge, lineOpen, stopPc, stopTodo, ret, started, nedges, lim>>

\* --------------------------------------------------------- Stop from a callback
\* the last callback invocation of button b, 0 when there was none
LastFor(b) ==
    IF \E i \in 1..Len(cbLog) : cbLog[i].btn = b
    THEN CHOOSE i \in 1..Len(cbLog) :
            cbLog[i].btn = b /\ \A j \in (i + 1)..Len(cbLog) : cbLog[j].btn # b
    ELSE 0

\* callback invocation i is inside a manager.Stop() call it made
InStopCall(i) ==
    i # 0 /\ \E t \in 1..StopCalls : stopBy[t] = i /\ stopPc[t] \notin {"idle", "done"}

\* callback invocation i is executing its body: the goroutine of `go`
\* (button.go:183-185, part_004:258-262) or, in the push model, the call
\* inside the handler that is in flight (button.go:336)
Running(i) ==
    IF impl = "push"
    THEN btns[cbLog[i].btn].inflight # ZeroTime /\ i = LastFor(cbLog[i].btn)
    ELSE TRUE

\* who can call Stop: a goroutine of the caller (0) or, with the README's
\* emergency-stop callback, a running callback that is not in Stop already
StopCallers ==
    {0} \cup (IF lim.cbstops
              THEN {i \in 1..Len(cbLog) : Running(i) /\ ~InStopCall(i)}
              ELSE {})

\* ------------------------------------------------------ push-model handler
LastEventTime(b) ==
    IF btns[b].hist = <<>> THEN ZeroTime ELSE btns[b].hist[Len(btns[b].hist)].now

\* the kernel reports a rising edge on an open line: the handler closure of
\* AddButton runs (button.go:324-337) up to and including the callback's call
LineEvent(b) ==
    LET now == clock
        rej == handlerRejects(now, btns[b].lastPress, btns[b].window)
        k == Len(btns[b].hist) + 1
        e == HistEntry(IF rej THEN "rejected" ELSE "accepted", now, btns[b].lastPress)
    IN  /\ ~crashed
        /\ impl = "push"
        /\ EdgeCount < lim.edges
        /\ btns[b].closes = 0
        /\ btns[b].inflight = ZeroTime
        \* a granted kernel debounce reports rising edges two periods apart
        /\ btns[b].hwDebounce =>
              (LastEventTime(b) = ZeroTime \/ now - LastEventTime(b) >= 2 * btns[b].window)
        /\ nedges' = [nedges EXCEPT ![btns[b].line] = @ + 1]
        /\ IF rej
           THEN /\ btns' = [btns EXCEPT ![b].hist = Append(@, e)]
                /\ UNCHANGED cbLog
           ELSE IF btns[b].cb
           THEN /\ btns' = [btns EXCEPT ![b].hist = Append(@, e),
                                        ![b].inflight = now]
                /\ cbLog' = Append(cbLog, [btn |-> b, k |-> k])
           ELSE /\ btns' = [btns EXCEPT ![b].hist = Append(@, [e EXCEPT !.upd = now]),
                                        ![b].lastPress = now]
                /\ UNCHANGED cbLog
        /\ UNCHANGED <<stopBy, crashed, impl, clock, mu, cancelled, wg, registry, monitors, pending,
                       level, edge, lineOpen, stopPc, stopTodo, ret, started, lim>>

\* the callback returns, which it cannot do while inside a Stop call it
\* made, and the handler stores `last = now` (button.go:338)
HandlerReturn(b) ==
    /\ ~crashed
    /\ impl = "push"
    /\ btns[b].inflight # ZeroTime
    /\ ~InStopCall(LastFor(b))
    /\ btns' = [btns EXCEPT ![b].lastPress = btns[b].inflight,
                            ![b].hist[Len(btns[b].hist)].upd = btns[b].inflight,
                            ![b].inflight = ZeroTime]
    /\ UNCHANGED <<stopBy, crashed, impl, clock, mu, cancelled, wg, registry, monitors, pending, cbLog,
                   level, edge, lineOpen, stopPc, stopTodo, ret, started, nedges, lim>>

\* the callback the handler called inline panics (button.go:336): nothing
\* recovers and the Go runtime ends the process
HandlerPanic(b) ==
    /\ ~crashed
    /\ lim.panics
    /\ impl = "push"
    /\ btns[b].inflight # ZeroTime
    /\ ~InStopCall(LastFor(b))
    /\ crashed' = TRUE
    /\ UNCHANGED <<stopBy, impl, clock, mu, cancelled, wg, btns, registry, monitors, pending,
                   cbLog, level, edge, lineOpen, stopPc, stopTodo, ret, started, nedges, lim>>

\* -------------------------------------------------------------------- Stop
StopMayBegin(t) == t <= lim.stops /\ stopPc[t] = "idle" /\ (IF t = 1 THEN TRUE ELSE stopPc[t - 1] # "idle")

\* a Stop that does not cancel the context
StopCancelNoSignal(t) ==
    /\ ~crashed
    /\ impl \in {"block", "timeout"}
    /\ StopMayBegin(t)
    /\ mu = 0
    /\ stopPc' = [stopPc EXCEPT ![t] = "wait"]
    /\ \E c \in StopCallers : stopBy' = [stopBy EXCEPT ![t] = c]
    /\ UNCHANGED <<crashed, impl, clock, mu, cancelled, wg, btns, registry, monitors,
                   pending, cbLog, level, edge, lineOpen, stopTodo, ret, started, nedges, lim>>

\* button.go:192-196, part_004:276-280: bm.cancel() under bm.mu
StopCancel(t) ==
    /\ ~crashed
    /\ impl \in {"block", "timeout"}
    /\ StopMayBegin(t)
    /\ mu = 0
    /\ cancelled' = TRUE
    /\ stopPc' = [stopPc EXCEPT ![t] = "wait"]
    /\ \E c \in StopCallers : stopBy' = [stopBy EXCEPT ![t] = c]
    /\ UNCHANGED <<crashed, impl, clock, mu, wg, btns, registry, monitors, pending, cbLog,
                   level, edge, lineOpen, stopTodo, ret, started, nedges, lim>>

\* a Stop that waits for a monitor to have run and exited
StopWaitForMonitors(t) ==
    /\ ~crashed
    /\ stopPc[t] = "wait"
    /\ wg = 0 /\ Len(monitors) > 0
    /\ stopPc' = [stopPc EXCEPT ![t] = "halt"]
    /\ UNCHANGED <<stopBy, crashed, impl, clock, mu, cancelled, wg, btns, registry, monitors, pending,
                   cbLog, level, edge, lineOpen, stopTodo, ret, started, nedges, lim>>

\* button.go:199, part_004:283: bm.wg.Wait()
StopWait(t) ==
    /\ ~crashed
    /\ stopPc[t] = "wait"
    /\ wg = 0
    /\ stopPc' = [stopPc EXCEPT ![t] = "halt"]
    /\ UNCHANGED <<stopBy, crashed, impl, clock, mu, cancelled, wg, btns, registry, monitors, pending,
                   cbLog, level, edge, lineOpen, stopTodo, ret, started, nedges, lim>>

\* the lines of the buttons in the registry
RegisteredLines == {btns[b].line : b \in Registered}

\* a Stop that returns without halting the pins
StopReturnNoHalt(t) ==
    /\ ~crashed
    /\ stopPc[t] = "halt"
    /\ mu = 0
    /\ stopPc' = [stopPc EXCEPT ![t] = "done"]
    /\ UNCHANGED <<stopBy, crashed, impl, clock, mu, cancelled, wg, btns, registry, monitors, pending,
                   cbLog, level, edge, lineOpen, stopTodo, ret, started, nedges, lim>>

\* a Stop that deletes the buttons it halted from bm.buttons
StopHaltAndForget(t) ==
    /\ ~crashed
    /\ stopPc[t] = "halt"
    /\ mu = 0
    /\ btns' = [b \in 1..Len(btns) |->
                  IF b \in Registered THEN [btns[b] EXCEPT !.closes = @ + 1] ELSE btns[b]]
    /\ lineOpen' = [l \in Lines |-> lineOpen[l] /\ l \notin RegisteredLines]
    /\ edge' = [l \in Lines |-> edge[l] /\ l \notin RegisteredLines]
    /\ stopPc' = [stopPc EXCEPT ![t] = "done"]
    /\ registry' = [n \in PinNames |-> 0]
    /\ UNCHANGED <<stopBy, crashed, impl, clock, mu, cancelled, wg, monitors, pending,
                   cbLog, level, stopTodo, ret, started, nedges, lim>>

\* button.go:208-217 haltAllPins, part_004:286-292; then Stop returns
StopHalt(t) ==
    /\ ~crashed
    /\ stopPc[t] = "halt"
    /\ mu = 0
    /\ btns' = [b \in 1..Len(btns) |->
                  IF b \in Registered THEN [btns[b] EXCEPT !.closes = @ + 1] ELSE btns[b]]
    /\ lineOpen' = [l \in Lines |-> lineOpen[l] /\ l \notin RegisteredLines]
    /\ edge' = [l \in Lines |-> edge[l] /\ l \notin RegisteredLines]
    /\ stopPc' = [stopPc EXCEPT ![t] = "done"]
    /\ UNCHANGED <<stopBy, crashed, impl, clock, mu, cancelled, wg, registry, monitors, pending,
                   cbLog, level, stopTodo, ret, started, nedges, lim>>

\* push model, button.go:418: bm.mu.Lock()
StopLock(t) ==
    /\ ~crashed
    /\ impl = "push"
    /\ StopMayBegin(t)
    /\ mu = 0
    /\ mu' = t
    /\ stopTodo' = [stopTodo EXCEPT ![t] = Registered]
    /\ stopPc' = [stopPc EXCEPT ![t] = "close"]
    /\ \E c \in StopCallers : stopBy' = [stopBy EXCEPT ![t] = c]
    /\ UNCHANGED <<crashed, impl, clock, cancelled, wg, btns, registry, monitors, pending, cbLog,
                   level, edge, lineOpen, ret, started, nedges, lim>>

\* push model, button.go:420-426: btn.line.Close() for one button of the
\* range loop; Close waits for an in-flight handler of an open line
StopClose(t, b) ==
    /\ ~crashed
    /\ stopPc[t] = "close"
    /\ b \in stopTodo[t]
    /\ btns[b].closes = 0 => btns[b].inflight = ZeroTime
    /\ btns' = [btns EXCEPT ![b].closes = @ + 1]
    /\ lineOpen' = IF btns[b].closes = 0
                   THEN [lineOpen EXCEPT ![btns[b].line] = FALSE] ELSE lineOpen
    /\ stopTodo' = [stopTodo EXCEPT ![t] = @ \ {b}]
    /\ UNCHANGED <<stopBy, crashed, impl, clock, mu, cancelled, wg, registry, monitors, pending, cbLog,
                   level, edge, stopPc, ret, started, nedges, lim>>

\* push model, button.go:427-429: bm.mu.Unlock(); Stop returns
StopUnlock(t) ==
    /\ ~crashed
    /\ stopPc[t] = "close"
    /\ stopTodo[t] = {}
    /\ mu' = 0
    /\ stopPc' = [stopPc EXCEPT ![t] = "done"]
    /\ UNCHANGED <<stopBy, crashed, impl, clock, cancelled, wg, btns, registry, monitors, pending, cbLog,
                   level, edge, lineOpen, stopTodo, ret, started, nedges, lim>>

\* ------------------------------------------------------------- environment
\* time passes
Tick(d) ==
    /\ ~crashed
    /\ clock + d <= lim.time
    /\ clock' = clock + d
    /\ UNCHANGED <<stopBy, crashed, impl, mu, cancelled, wg, btns, registry, monitors, pending, cbLog,
                   level, edge, lineOpen, stopPc, stopTodo, ret, started, nedges, lim>>

\* the level of a configured periph.io line changes (one or more
\* transitions ending at lvl); edge detection latches it
Edge(l, lvl) ==
    /\ ~crashed
    /\ impl \in {"block", "timeout"}
    /\ EdgeCount < lim.edges
    /\ lineOpen[l]
    /\ level' = [level EXCEPT ![l] = lvl]
    /\ edge' = [edge EXCEPT ![l] = TRUE]
    /\ nedges' = [nedges EXCEPT ![l] = @ + 1]
    /\ UNCHANGED <<stopBy, crashed, impl, clock, mu, cancelled, wg, btns, registry, monitors, pending,
                   cbLog, lineOpen, stopPc, stopTodo, ret, started, lim>>

MonitorStep(m) ==
    /\ ~crashed
    /\ m \in 1..Len(monitors)
    /\  \/ MonitorWaitEdge(m)
        \/ MonitorWaitFail(m)
        \/ MonitorGate(m)
        \/ MonitorUpdate(m)
        \/ MonitorSelect(m)
        \/ MonitorTimeout(m)
        \/ MonitorEdge(m)

Monitor == \E m \in 1..MonitorSlots : MonitorStep(m)

Callback == \E p \in pending : CallbackBegin(p) \/ CallbackPanic(p)

Handler == \E b \in 1..Len(btns) : LineEvent(b) \/ HandlerReturn(b) \/ HandlerPanic(b)

\* the steps of a Stop call once it has been made
StopStep(t) ==
    \/ StopWait(t)
    \/ StopHalt(t)
    \/ StopUnlock(t)
    \/ \E b \in 1..Len(btns) : StopClose(t, b)

Stop == \E t \in 1..StopCalls : StopCancel(t) \/ StopLock(t) \/ StopStep(t)

Environment ==
    \/ \E d \in TickSteps : Tick(d)
    \/ \E l \in Lines, lvl \in Levels : Edge(l, lvl)

Next ==
    \/ AddButton
    \/ Start
    \/ Stop
    \/ Monitor
    \/ Callback
    \/ Handler
    \/ Environment

Spec == Init /\ [][Next]_vars

GateSpec == GateInit /\ [][Next]_vars

CallSpec == CallInit /\ [][Next]_vars

PanicSpec == PanicInit /\ [][Next]_vars

ZeroSpec == ZeroInit /\ [][Next]_vars

RaceSpec == RaceInit /\ [][Next]_vars

\* the Go scheduler runs every goroutine that can run: monitors, Stop calls
\* in progress, callback goroutines and returning callbacks; the environment
\* and the callers are free to do nothing
Fairness ==
    /\ \A m \in 1..MaxMonitors : WF_vars(MonitorStep(m))
    /\ \A t \in 1..FairMaxStops : WF_vars(StopStep(t))
    /\ WF_vars(Callback)
    /\ \A b \in 1..MaxButtons : WF_vars(b <= Len(btns) /\ HandlerReturn(b))

FairSpec == FairInit /\ [][Next]_vars /\ Fairness

EmergencySpec == EmergencyInit /\ [][Next]_vars /\ Fairness
\* ------------------------------------------------------------- properties
Buttons == 1..Len(btns)
Poll == impl \in {"block", "timeout"}
Hist(b) == btns[b].hist

\* the monitor that accepted press k of button b has not yet dispatched it
InUpdate(b, k) ==
    \E m \in 1..Len(monitors) :
        monitors[m].btn = b /\ monitors[m].pc = "update" /\ monitors[m].h = k

\* how many times the callback was dispatched for entry k of button b's history
Dispatched(b, k) ==
    Cardinality({p \in pending : p = [btn |-> b, k |-> k]})
      + Cardinality({i \in 1..Len(cbLog) : cbLog[i] = [btn |-> b, k |-> k]})

\* the times of the pressed candidates of button b, in order
RECURSIVE PressedTimes(_)
PressedTimes(h) ==
    IF h = <<>> THEN <<>>
    ELSE LET init == PressedTimes(SubSeq(h, 1, Len(h) - 1))
             e == h[Len(h)]
         IN  IF e.kind = "notPressed" THEN init ELSE Append(init, e.now)

\* every accepted press was stamped with the time it was observed at
Prompt(b) == \A k \in 1..Len(Hist(b)) : Hist(b)[k].kind = "accepted" => Hist(b)[k].upd = Hist(b)[k].now

\* the history entries of button b the callback was dispatched for
DispatchedFor(b) == {k \in 1..Len(Hist(b)) : Dispatched(b, k) > 0}

DispatchedTimes(b) == {Hist(b)[k].now : k \in DispatchedFor(b)}

Scenario(b) == btns[b].window = 5 /\ PressedTimes(Hist(b)) = <<0, 3, 8>> /\ Prompt(b)

\* C1: in the poll-model manager the callback is dispatched exactly once for
\* every pressed edge the debounce gate accepted and never for a rejected or
\* non-pressed edge; with a 50 ms window and pressed edges observed at 0, 30
\* and 80 ms it is dispatched exactly twice, for 0 and for 80 ms.
C1_AcceptedDispatchedOnce ==
    Poll =>
      \A b \in Buttons :
        btns[b].cb =>
          /\ \A k \in 1..Len(Hist(b)) :
                Dispatched(b, k) =
                  IF Hist(b)[k].kind = "accepted" /\ ~InUpdate(b, k) THEN 1 ELSE 0
          /\ Scenario(b) => (DispatchedTimes(b) = {0, 8} /\ Cardinality(DispatchedFor(b)) = 2)

C1_Witness ==
    /\ Poll
    /\ \E b \in Buttons : btns[b].cb /\ Scenario(b) /\ Len(Hist(b)) = 3
                          /\ Dispatched(b, 1) = 1 /\ Dispatched(b, 2) = 0 /\ Dispatched(b, 3) = 1
                          /\ Hist(b)[2].kind = "rejected"

\* C2: in the poll-model watch loop a pressed candidate observed at time now
\* is accepted exactly when now - last_accepted > window, the comparison being
\* strict, whatever the candidate times and the configured window.
C2_AcceptIffStrictlyPastWindow ==
    Poll =>
      \A b \in Buttons : \A k \in 1..Len(Hist(b)) :
        LET e == Hist(b)[k] IN
        e.kind # "notPressed" =>
          (e.kind = "accepted" <=>
             (e.last = ZeroTime \/ e.now - e.last > btns[b].window))

C2_Witness ==
    /\ Poll
    /\ \E b \in Buttons : \E k \in 1..Len(Hist(b)) :
         /\ Hist(b)[k].kind = "rejected"
         /\ Hist(b)[k].now - Hist(b)[k].last = btns[b].window
         /\ \E j \in 1..Len(Hist(b)) :
              Hist(b)[j].kind = "accepted" /\ Hist(b)[j].last # ZeroTime

\* C3: in the push-model manager any two callback invocations for the same
\* button are more than the button's debounce window apart.
C3_PushCallbacksWindowApart ==
    impl = "push" =>
      \A i \in 1..Len(cbLog) : \A j \in 1..Len(cbLog) :
        (i < j /\ cbLog[i].btn = cbLog[j].btn) =>
          LET b == cbLog[i].btn IN
          Hist(b)[cbLog[j].k].now - Hist(b)[cbLog[i].k].now > btns[b].window
StopReturns(t) == stopPc[t] # "done" /\ stopPc'[t] = "done"
InStop(t) == stopPc[t] \in {"wait", "halt", "close"}

\* C4: at the moment a call to Stop returns no monitorButton goroutine of
\* the manager is still running.
C4_NoMonitorRunsWhenStopReturns ==
    [][\A t \in 1..StopCalls :
         StopReturns(t) => \A m \in 1..Len(monitors') : monitors'[m].pc = "done"]_vars

\* C5: once a call to Stop has returned no callback begins executing
\* (poll-model manager, where callbacks run in goroutines of their own).
C5_NoCallbackAfterStopReturned ==
    [][(Poll /\ \E t \in 1..StopCalls : stopPc[t] = "done") => cbLog' = cbLog]_vars

\* C6: after Start, every call to Stop eventually returns, also when no
\* further edge occurs.
C6_StopEventuallyReturns ==
    \A t \in 1..StopCalls : (started /\ InStop(t)) ~> (stopPc[t] = "done")

\* C7: a Stop called on a manager that was never started returns, and its
\* steps invoke no callback and report no error.
C7_StopBeforeStartReturns ==
    /\ \A t \in 1..StopCalls : (~started /\ InStop(t)) ~> (started \/ stopPc[t] = "done")
    /\ [][(~started' /\ stopPc' # stopPc) =>
            (cbLog' = cbLog /\ pending' = pending /\ ret' = ret)]_vars

C7_Witness ==
    /\ ~started
    /\ ButtonCount > 0
    /\ \E t \in 1..StopCalls : stopPc[t] = "done"

\* C8: over any sequence of calls each opened line handle is released at
\* most once; a repeated Stop releases no line a second time.
C8_ReleasedAtMostOnce == \A b \in Buttons : btns[b].closes <= 1

\* C9: when Stop returns, every line a successful AddButton opened has been
\* released: no button's line is open and every registered button's handle
\* was released.
C9_NoLineOpenWhenStopReturns ==
    [][\A t \in 1..StopCalls :
         StopReturns(t) =>
           /\ \A b \in 1..Len(btns') : ~lineOpen'[btns'[b].line]
           /\ \A b \in Registered' : btns'[b].closes >= 1]_vars

C9_Witness ==
    /\ \E t \in 1..StopCalls : stopPc[t] = "done"
    /\ \E b \in Buttons : btns[b].closes >= 1 /\ ~lineOpen[btns[b].line]

\* C10: Start on an empty registry returns the no-buttons-configured error,
\* starts no watch activity and leaves the manager as it was.
C10_StartOnEmptyRegistry ==
    /\ [](ButtonCount = 0 => (~started /\ monitors = <<>> /\ wg = 0 /\ ret # Ok))
    /\ [][(ret' = ErrNoButtons /\ ret # ErrNoButtons) =>
            (ButtonCount = 0 /\
             UNCHANGED <<stopBy, crashed, impl, clock, mu, cancelled, wg, btns, registry, monitors,
                         pending, cbLog, level, edge, lineOpen, stopPc, stopTodo,
                         started, nedges, lim>>)]_vars

C10_Witness == ret = ErrNoButtons /\ ButtonCount = 0 /\ ~started

\* C11: a call to Start made after a Start of the same run has succeeded
\* returns an error.
C11_SecondStartFails ==
    [][(started /\ Start) => ret' # Ok]_vars

\* C12: an AddButton call made after Start has succeeded is rejected: it
\* returns an error and leaves the registry as it was.
C12_AddButtonAfterStartRejected ==
    [][(started /\ AddButton) => (ret' # Ok /\ registry' = registry)]_vars

\* the AddButton calls made with the identifier name
AddButtonNamed(name) ==
    \E window0 \in lim.windows, cb \in Callbacks :
        \/ \E r \in PeriphRequests : AddButtonPeriph(name, window0, cb, r.pull, r.cap)
        \/ \E r \in PushRequests :
              AddButtonPush(name, window0, cb, r.pull, r.activeLow, r.cap)

\* what no call of AddButton or Start changes
CallFrame ==
    UNCHANGED <<clock, mu, cancelled, pending, cbLog, level, edge, stopPc, stopTodo,
                nedges, crashed>>

\* the identifiers that name no pin (periph.io registry) or are no
\* "gpiochipX:line" or "line" (push model)
Unresolvable == IF impl = "push" THEN {"x"} ELSE {"9", "gpiochip0:7", "x"}

ResolutionErrors == {ErrFindPin, ErrPinNameRequired, ErrInvalidOffset, ErrInvalidPinName}

C14_FailedAddButtonChangesNothing ==
    [][\/ UNCHANGED <<registry, btns, lineOpen, monitors, wg, pending, cbLog, started>>
       \/ ~(ret' # Ok /\ CallFrame /\ AddButton)]_vars

C14_Witness ==
    /\ ret \in {ErrConfigurePin, ErrRequestLine}
    /\ ButtonCount = 1
    /\ Cardinality({l \in Lines : lineOpen[l]}) = 1

\* the callbacks dispatched so far, begun or not
Dispatches == pending \cup {cbLog[i] : i \in 1..Len(cbLog)}

\* the buttons the monitors spawned by this step watch
SpawnedFor == {monitors'[m].btn : m \in (Len(monitors) + 1)..Len(monitors')}

\* C15: with two buttons registered under distinct identifiers GetButtonCount
\* is 2 and the first Start runs exactly one watch activity per button; a
\* button handles no more edges than its own line produced, so an edge on the
\* other line neither invokes its callback nor sets its last-accepted time,
\* and every callback is the one of the button whose line produced the edge.
C15_ButtonsAreIndependent ==
    /\ [](\A b \in Buttons :
            /\ Len(Hist(b)) <= nedges[btns[b].line]
            /\ btns[b].lastPress # ZeroTime =>
                  \E k \in 1..Len(Hist(b)) : Hist(b)[k].kind = "accepted"
            /\ \A p \in Dispatches :
                  p.btn = b => (p.k \in 1..Len(Hist(b)) /\ Hist(b)[p.k].kind = "accepted"))
    /\ [][\A n \in PinNames :
            (registry[n] = 0 /\ registry'[n] # 0) => ButtonCount' = ButtonCount + 1]_vars
    /\ [][(Poll /\ ~started /\ Start /\ ret' = Ok) =>
            (/\ Len(monitors') = ButtonCount
             /\ SpawnedFor = Registered
             /\ wg' = ButtonCount)]_vars

C15_Witness ==
    /\ Poll /\ started
    /\ ButtonCount = 2 /\ Len(monitors) = 2
    /\ \E b, c \in Buttons :
         /\ btns[b].line # btns[c].line
         /\ nedges[btns[b].line] = 1 /\ nedges[btns[c].line] = 0
         /\ \E i \in 1..Len(cbLog) : cbLog[i].btn = b
         /\ Hist(c) = <<>> /\ btns[c].lastPress = ZeroTime

\* the push-model identifiers of the lines the chip has, and their lines
PushLineNames == {"7", "8", "gpiochip0:7"}
LineNamed(name) == IF name = "8" THEN 8 ELSE 7

\* an AddButton asking for a pull-up on a free line whose driver accepts only
\* a bare input request
AddButtonBare ==
    \E name \in PushLineNames, window0 \in lim.windows, cb \in Callbacks :
        /\ ~lineOpen[LineNamed(name)]
        /\ AddButtonPush(name, window0, cb, "PullUp", TRUE, "bare")

\* the buttons AddButton registered through a request without debounce
Fallback(b) == btns[b].window > 0 /\ ~btns[b].hwDebounce

\* how many times the callback was invoked for entry k of button b's history
Invoked(b, k) == Cardinality({i \in 1..Len(cbLog) : cbLog[i] = [btn |-> b, k |-> k]})

C17_CallbackNeverInline ==
    \A b \in Buttons : btns[b].inflight = ZeroTime

\* C18: within one button the callbacks begin executing in the order in
\* which the debounce gate accepted their presses (poll-model managers,
\* whatever the scheduler does with the callback goroutines).
C18_CallbacksBeginInAcceptOrder ==
    Poll =>
      \A i \in 1..Len(cbLog) : \A j \in 1..Len(cbLog) :
        (i < j /\ cbLog[i].btn = cbLog[j].btn) => cbLog[i].k < cbLog[j].k

\* C19: a callback that panics ends no watch activity, of its button or of
\* another: the process and its monitors keep running and later accepted
\* presses are still dispatched.
C19_CallbackPanicKeepsWatching == ~crashed

\* every button of this run was registered with DebounceTime 0
ZeroRegistered == lim.windows = {0}

\* C20 as stated: a button registered with debounce window 0 has debouncing
\* disabled, every pressed candidate on its line is accepted.
C20_ZeroWindowAcceptsAll ==
    ZeroRegistered =>
      \A b \in Buttons : \A k \in 1..Len(Hist(b)) : Hist(b)[k].kind # "rejected"

\* C20 as amended: a button registered with debounce window 0 is given the
\* default window of 50 ms, and in the poll-model managers a pressed
\* candidate on its line is accepted exactly when it comes more than 50 ms
\* after the stored last-press time.
C20_ZeroWindowIsDefault ==
    ZeroRegistered =>
      \A b \in Buttons :
        /\ btns[b].window = defaultDebounceTime
        /\ Poll =>
             \A k \in 1..Len(Hist(b)) :
               LET e == Hist(b)[k] IN
               e.kind # "notPressed" =>
                 (e.kind = "accepted" <=>
                    (e.last = ZeroTime \/ e.now - e.last > defaultDebounceTime))

C20_Witness ==
    /\ ZeroRegistered /\ Poll
    /\ \E b \in Buttons : \E k \in 1..Len(Hist(b)) :
         /\ Hist(b)[k].kind = "rejected"
         /\ Hist(b)[k].now - Hist(b)[k].last \in 1..defaultDebounceTime

\* C21: no callback is invoked for a button before Start has been called:
\* while no Start has succeeded nothing was dispatched, whatever edges the
\* lines of the registered buttons produced.
C21_NoCallbackBeforeStart ==
    ~started => (cbLog = <<>> /\ pending = {})

\* a Stop call made by a callback waits, in line.Close, for the handler that
\* is running that very callback
WaitsForItself(t) ==
    /\ stopBy[t] # 0
    /\ stopPc[t] = "close"
    /\ \E b \in stopTodo[t] :
          btns[b].closes = 0 /\ btns[b].inflight # ZeroTime /\ LastFor(b) = stopBy[t]

\* C22: a callback that calls Stop on its manager completes: the Stop call
\* it made returns, and no such call ever waits for its own caller.
C22_StopFromCallbackReturns ==
    /\ \A t \in 1..StopCalls : (stopBy[t] # 0 /\ InStop(t)) ~> (stopPc[t] = "done")
    /\ [](\A t \in 1..StopCalls : ~WaitsForItself(t))

\* C23: AddButton with an identifier that is already in the registry replaces
\* the entry only if the line handle of that entry has been released;
\* otherwise the entry stays, so no unreleased button leaves the registry.
C23_ReplacesOnlyReleasedEntry ==
    [][\A n \in PinNames :
         (registry[n] # 0 /\ registry'[n] # registry[n]) =>
            btns[registry[n]].closes >= 1]_vars

\* C24: every button stored in the registry has a debounce window greater
\* than or equal to 0: AddButton never stores a negative window.
C24_StoredWindowNotNegative ==
    \A b \in Registered : btns[b].window >= 0

\* C25: in the poll-model watch loop the debounce decision and the update of
\* the timestamp are one atomic step: of the candidates of one button, also
\* when two watch activities evaluate them concurrently, any two that were
\* accepted are more than the window apart.
C25_AcceptedMoreThanWindowApart ==
    Poll =>
      \A b \in Buttons : \A j \in 1..Len(Hist(b)) : \A k \in 1..Len(Hist(b)) :
        (j < k /\ Hist(b)[j].kind = "accepted" /\ Hist(b)[k].kind = "accepted") =>
           Hist(b)[k].now - Hist(b)[j].now > btns[b].window

\* the wait of monitor m returns in this step
WaitReturns(m) == monitors[m].pc = "wait" /\ monitors'[m].pc # "wait"

\* C26: once Stop has raised the cancellation signal, a watch activity whose
\* wait returns afterwards accepts no press and dispatches no callback for
\* that edge.
C26_NoAcceptAfterCancel ==
    [][\A m \in 1..Len(monitors) :
         (cancelled /\ WaitReturns(m)) =>
            /\ pending' = pending
            /\ monitors'[m].pc \notin {"gate", "update"}
            /\ btns'[monitors[m].btn].lastPress = btns[monitors[m].btn].lastPress]_vars

\* a watch activity reads the level of button b's line in this step
ReadsLevel(b) == Len(btns'[b].hist) > Len(btns[b].hist)

\* C27: an edge after which the line reads as not pressed dispatches no
\* callback and leaves the last-accepted timestamp of the button unchanged;
\* the debounce gate is consulted only for pressed readings, so no watch
\* activity goes on to update and dispatch.
C27_NotPressedChangesNothing ==
    [][Poll =>
         \A b \in Buttons :
           (ReadsLevel(b) /\ level[btns[b].line] = High) =>
              /\ pending' = pending
              /\ cbLog' = cbLog
              /\ btns'[b].lastPress = btns[b].lastPress
              /\ \A m \in 1..Len(monitors) :
                    monitors'[m].pc = "update" => monitors[m].pc = "update"]_vars

C27_Witness ==
    /\ Poll
    /\ \E b \in Buttons :
         /\ Len(Hist(b)) = 2
         /\ Hist(b)[1].kind = "accepted" /\ Hist(b)[2].kind = "notPressed"
         /\ btns[b].lastPress = Hist(b)[1].upd /\ btns[b].lastPress # ZeroTime
         /\ Hist(b)[2].now > Hist(b)[1].now
         /\ Dispatched(b, 1) = 1 /\ Dispatched(b, 2) = 0

\* C28: for every button the last-accepted-press timestamp never decreases,
\* also with several watch activities on the button and with Start and Stop
\* calls interleaved.
C28_LastPressNeverDecreases ==
    [][\A b \in Buttons : btns'[b].lastPress >= btns[b].lastPress]_vars

C28_Witness ==
    /\ Len(monitors) = 2 /\ monitors[1].btn = monitors[2].btn
    /\ \E b \in Buttons : \E j, k \in 1..Len(Hist(b)) :
         /\ Hist(b)[j].upd # ZeroTime /\ Hist(b)[k].upd > Hist(b)[j].upd
         /\ btns[b].lastPress = Hist(b)[k].upd

\* the options of the bare input request and of the full request
BareOptions(activeLow) == IF activeLow THEN {"activeLow"} ELSE {}
FullOptions(window, pull, activeLow) ==
    BareOptions(activeLow) \cup (IF window > 0 THEN {"debounce"} ELSE {})
                          \cup (IF pull = "PullNoChange" THEN {} ELSE {"bias"})

\* this step is the push-model AddButton called with request r for a line
\* the chip has
PushCall(r, name, w0) ==
    /\ impl = "push"
    /\ CallFrame
    /\ \E cb \in Callbacks : AddButtonPush(name, w0, cb, r.pull, r.activeLow, r.cap)

\* the call fails only if the bare input request fails
FailsOnlyIfBareFails(r, name) ==
    ret' # Ok => (lineOpen[LineNamed(name)] \/ ~Accepts(r.cap, BareOptions(r.activeLow)))

\* C29 as stated: the requests the push-model AddButton attempts run from
\* the full one to the bare one, each attempt's option set is contained in
\* the previous attempt's, and the call fails only if the bare attempt fails.
C29_EachAttemptWithinPrevious ==
    [][\A r \in PushRequests, name \in PushLineNames, w0 \in lim.windows :
         PushCall(r, name, w0) =>
           LET w == applyDefaults(w0)
               cs == combos(w, r.pull, r.activeLow)
           IN  /\ cs[1] = FullOptions(w, r.pull, r.activeLow)
               /\ cs[Len(cs)] = BareOptions(r.activeLow)
               /\ \A i \in 2..Len(cs) : cs[i] \subseteq cs[i - 1]
               /\ FailsOnlyIfBareFails(r, name)]_vars

\* C29 as amended: the attempts are the full request, then (when a bias was
\* asked for) the full one without the bias, then (when the window is
\* positive) the full one without the debounce but with the bias, then the
\* bare one; every attempt's option set is contained in the full set and
\* contains the bare set, and the call fails only if the bare attempt fails.
C29_AttemptsBetweenFullAndBare ==
    [][\A r \in PushRequests, name \in PushLineNames, w0 \in lim.windows :
         PushCall(r, name, w0) =>
           LET w == applyDefaults(w0)
               cs == combos(w, r.pull, r.activeLow)
               full == FullOptions(w, r.pull, r.activeLow)
               bare == BareOptions(r.activeLow)
           IN  /\ cs[1] = full
               /\ cs[Len(cs)] = bare
               /\ \A i \in 1..Len(cs) : bare \subseteq cs[i] /\ cs[i] \subseteq full
               /\ "bias" \in full => cs[2] = full \ {"bias"}
               /\ "debounce" \in full => cs[Len(cs) - 1] = full \ {"debounce"}
               /\ Len(cs) = 2 + Cardinality(full \cap {"bias", "debounce"})
               /\ FailsOnlyIfBareFails(r, name)]_vars

C29_Witness ==
    /\ impl = "push"
    /\ ret = Ok
    /\ \E b \in Registered :
         /\ btns[b].window > 0 /\ ~btns[b].hwDebounce
         /\ lineOpen[btns[b].line] /\ Hist(b) = <<>>

\* monitor m takes a step
Moves(m) == monitors'[m] # monitors[m]

StopReturned == \E t \in 1..StopCalls : stopPc[t] = "done"

\* this step dispatches a callback for button b: a `go` statement of a
\* monitor or, in the push model, the call inside the handler
NewDispatchFor(b) ==
    \/ \E p \in pending' \ pending : p.btn = b
    \/ impl = "push" /\ \E i \in (Len(cbLog) + 1)..Len(cbLog') : cbLog'[i].btn = b

\* C31: after Stop has returned a later Start does not resume watching: no
\* callback is dispatched any more for a button of the poll-model managers
\* (re-registered or not) nor, in the push model, for a button whose line
\* the Stop released.
C31_NoDispatchAfterStopReturned ==
    [][StopReturned =>
         \A b \in Buttons :
           (Poll \/ btns[b].closes >= 1) => ~NewDispatchFor(b)]_vars

C31_Witness ==
    /\ Poll /\ StopReturned /\ started
    /\ Len(monitors) = 2
    /\ \A m \in 1..Len(monitors) : monitors[m].pc = "done"
    /\ \E b \in Buttons : Len(Hist(b)) = 1 /\ Dispatched(b, 1) = 1 /\ btns[b].closes >= 1
    /\ wg = 0

\* the monitorButton goroutines that are running, all and those of button b
RunningMonitors == {m \in 1..Len(monitors) : monitors[m].pc # "done"}
RunningMonitorsOf(b) == {m \in RunningMonitors : monitors[m].btn = b}

\* C32: at every moment the running watch activities are at most as many as
\* the registered buttons and no button is watched by more than one of
\* them, whatever Start calls were made.
C32_OneMonitorPerButton ==
    /\ Cardinality(RunningMonitors) <= ButtonCount
    /\ \A b \in Buttons : Cardinality(RunningMonitorsOf(b)) <= 1

\* this step releases (Halt) the line handle of button b
Releases(b) == btns'[b].closes > btns[b].closes

\* C33: in the poll-model managers a line handle is never released while a
\* watch activity for that line is still running: Stop cancels, joins every
\* watch activity and only then halts the pins.
C33_NoHaltWhileMonitorRuns ==
    [][Poll =>
         \A b \in Buttons :
           Releases(b) =>
             \A m \in RunningMonitors : btns[monitors[m].btn].line # btns[b].line]_vars

\* this step belongs to a Start or to a Stop call
StartOrStopStep ==
    stopPc' # stopPc \/ stopTodo' # stopTodo \/ started' # started
      \/ monitors' # monitors \/ ret' = ErrNoButtons

\* C34: Start and Stop never change the registry, so GetButtonCount is the
\* same before and after them; the registry changes only in a successful
\* AddButton, which raises the count by one or (an identifier registered
\* again) not at all.
C34_OnlyAddButtonChangesRegistry ==
    /\ [][StartOrStopStep => (registry' = registry /\ ButtonCount' = ButtonCount)]_vars
    /\ [][registry' # registry =>
            /\ ret' = Ok /\ Len(btns') = Len(btns) + 1
            /\ registry'[btns'[Len(btns')].name] = Len(btns')
            /\ ButtonCount' \in {ButtonCount, ButtonCount + 1}]_vars

C34_Witness ==
    /\ started /\ StopReturned
    /\ ButtonCount = 2
    /\ \A b \in Registered : btns[b].closes >= 1

\* this step lets the debounce gate reject a candidate of button b
Rejects(b) ==
    /\ Len(btns'[b].hist) = Len(btns[b].hist) + 1
    /\ btns'[b].hist[Len(btns'[b].hist)].kind = "rejected"

\* the timestamp the accepted candidates before entry k of button b left
RECURSIVE LastAcceptedBefore(_, _)
LastAcceptedBefore(h, k) ==
    IF k <= 1 THEN ZeroTime
    ELSE IF h[k - 1].kind = "accepted" THEN h[k - 1].upd
    ELSE LastAcceptedBefore(h, k - 1)

\* C35: a candidate the debounce gate rejects leaves the last-accepted
\* timestamp of the button unchanged and dispatches nothing, so every
\* candidate is measured from the last accepted press, however many
\* rejected candidates came in between.
C35_RejectKeepsLastPress ==
    /\ [][\A b \in Buttons :
            Rejects(b) =>
              /\ btns'[b].lastPress = btns[b].lastPress
              /\ pending' = pending /\ cbLog' = cbLog]_vars
    /\ [](\A b \in Buttons : \A k \in 1..Len(Hist(b)) :
            Hist(b)[k].last = LastAcceptedBefore(Hist(b), k))

C35_Witness ==
    \E b \in Buttons :
      /\ Len(Hist(b)) = 3
      /\ Hist(b)[1].kind = "accepted" /\ Hist(b)[2].kind = "rejected"
      /\ Hist(b)[3].kind = "accepted"
      /\ Hist(b)[3].last = Hist(b)[1].upd
      /\ Hist(b)[3].now - Hist(b)[2].now <= btns[b].window
      /\ btns[b].lastPress = Hist(b)[3].upd
====
